---- MODULE Spec2Model ----
(***************************************************************************)
(* Model of examples/sample_program.c: a coordinator (main) that launches  *)
(* three counter-workers (worker_thread) and one array-worker              *)
(* (mutex_user_thread), reduces the shared array, joins the workers and    *)
(* reports the final counter and the final sum.                            *)
(*                                                                         *)
(* Threads are indexed as the C arrays threads[] / thread_data[] are:      *)
(* 0..2 are the counter-workers, 3 is the array-worker.                    *)
(*                                                                         *)
(* Granularity: every statement that touches a mutex, counter, an array    *)
(* element another thread writes, thread_data or the output is a step of   *)
(* its thread, and so are the two delays taken inside a critical section;  *)
(* counter++ is a load and a store.  Statements that touch only the        *)
(* thread's own locals (loop initialisation, i++, the loop tests, the      *)
(* delay after the worker's unlock) belong to the step before them.  The   *)
(* unsynchronised reads of array by main interleave with the array-worker: *)
(* each read returns the element's value before or after the doubling.     *)
(***************************************************************************)
EXTENDS Integers, Sequences, FiniteSets, TLC

(* ---------------- program constants ---------------- *)
num_threads == 4
iterations == 5
ArraySize == 10
DoubleCount == 5
MutexUserIterations == 1
EXIT_SUCCESS == 0

(* ---------------- bounds of the reduction harness ---------------- *)
MaxLen == 3
MaxVal == 2
MaxCalls == 2

Threads == 0 .. (num_threads - 1)
Workers == 0 .. (num_threads - 2)
MutexUser == num_threads - 1

\* PTHREAD_MUTEX_INITIALIZER: the owner field of a mutex nobody holds
Free == -1

\* marker of an automatic variable that has not been assigned (or whose scope
\* has ended); every value the program computes is >= 0, so none equals it
Uninit == -1

VARIABLES
    counter,        \* int counter
    array,          \* int array[10], indexed 0..9
    mutex1,         \* owner of mutex1, or Free
    mutex2,         \* owner of mutex2, or Free
    thread_data,    \* main's thread_data[num_threads]
    pc,             \* control point of each launched thread
    wi,             \* worker_thread: loop variable i
    reg,            \* worker_thread: the value loaded by counter++
    local_value,    \* worker_thread: int local_value
    mi,             \* mutex_user_thread: loop variable i
    mpc,            \* control point of main
    midx,           \* main: loop variable i of the create / join loops
    si,             \* calculate_sum: loop variable i
    csum,           \* calculate_sum: int sum
    sum,            \* main: int sum
    stdout,         \* the values written by printf, in emission order
    exitCode,       \* the value returned by main
    sArr,           \* reduction harness: the caller's array, indexed from 0
    sArr0,          \* reduction harness: the array as first drawn
    sSeen,          \* reduction harness: the array as the latest call saw it
    sFirst,         \* reduction harness: result of the first call
    sLast,          \* reduction harness: result of the latest call
    sCalls          \* reduction harness: number of calls made

progVars == <<counter, array, mutex1, mutex2, thread_data, pc, wi, reg,
              local_value, mi, mpc, midx, si, csum, sum, stdout, exitCode>>
sumVars == <<sArr, sArr0, sSeen, sFirst, sLast, sCalls>>
vars == <<progVars, sumVars>>

(* ---------------- initial memory ---------------- *)
InitArray == [j \in 0 .. (ArraySize - 1) |-> j + 1]

ProgInit ==
    /\ counter = 0
    /\ array = InitArray
    /\ mutex1 = Free
    /\ mutex2 = Free
    /\ thread_data = [t \in Threads |-> [id |-> Uninit, iterations |-> Uninit]]
    /\ pc = [t \in Threads |-> "notstarted"]
    /\ wi = [t \in Workers |-> Uninit]
    /\ reg = [t \in Workers |-> Uninit]
    /\ local_value = [t \in Workers |-> Uninit]
    /\ mi = Uninit
    /\ mpc = "start"
    /\ midx = Uninit
    /\ si = Uninit
    /\ csum = Uninit
    /\ sum = Uninit
    /\ stdout = [worker |-> <<>>, acquired |-> <<>>, initial |-> Uninit,
                 counter |-> Uninit, final |-> Uninit, completed |-> FALSE]
    /\ exitCode = Uninit

SumIdle ==
    /\ sArr = <<>>
    /\ sArr0 = <<>>
    /\ sSeen = <<>>
    /\ sFirst = 0
    /\ sLast = 0
    /\ sCalls = 0

Init == ProgInit /\ SumIdle

(* ---------------- pthread mutexes ---------------- *)
\* a lock that returns without waiting for the mutex to be free
MutexLock_NoWait(m, t, m2) == m2 = t

\* pthread_mutex_lock returns only once the mutex is free, owned by the caller
MutexLock(m, t, m2) ==
    /\ m = Free
    /\ m2 = t

\* pthread_mutex_unlock
MutexUnlock(m2) == m2 = Free

(* ---------------- worker_thread ---------------- *)
\* the loop condition written i <= data->iterations
WorkerLoopTest_OffByOne(w, i) == i <= thread_data[w].iterations

\* the loop condition i < data->iterations, read through the descriptor
WorkerLoopTest(w, i) == i < thread_data[w].iterations

\* entry: data = arg; i = 0; first loop test
w_entry(w) ==
    /\ pc[w] = "entry"
    /\ wi' = [wi EXCEPT ![w] = 0]
    /\ pc' = [pc EXCEPT ![w] = IF WorkerLoopTest(w, 0) THEN "lock" ELSE "done"]
    /\ UNCHANGED <<sumVars, counter, array, mutex1, mutex2, thread_data, reg,
                   local_value, mi, mpc, midx, si, csum, sum, stdout, exitCode>>

\* the worker locking mutex2 in place of mutex1
w_lock_WrongMutex(w) ==
    /\ pc[w] = "lock"
    /\ MutexLock(mutex2, w, mutex2')
    /\ pc' = [pc EXCEPT ![w] = "load"]
    /\ UNCHANGED <<sumVars, counter, array, mutex1, thread_data, wi, reg,
                   local_value, mi, mpc, midx, si, csum, sum, stdout, exitCode>>

\* pthread_mutex_lock(&mutex1)
w_lock(w) ==
    /\ pc[w] = "lock"
    /\ MutexLock(mutex1, w, mutex1')
    /\ pc' = [pc EXCEPT ![w] = "load"]
    /\ UNCHANGED <<sumVars, counter, array, mutex2, thread_data, wi, reg,
                   local_value, mi, mpc, midx, si, csum, sum, stdout, exitCode>>

\* counter++ : the load of counter
w_load(w) ==
    /\ pc[w] = "load"
    /\ reg' = [reg EXCEPT ![w] = counter]
    /\ pc' = [pc EXCEPT ![w] = "store"]
    /\ UNCHANGED <<sumVars, counter, array, mutex1, mutex2, thread_data, wi,
                   local_value, mi, mpc, midx, si, csum, sum, stdout, exitCode>>

\* counter++ : the store of the incremented value
w_store(w) ==
    /\ pc[w] = "store"
    /\ counter' = reg[w] + 1
    /\ reg' = [reg EXCEPT ![w] = Uninit]
    /\ pc' = [pc EXCEPT ![w] = "local"]
    /\ UNCHANGED <<sumVars, array, mutex1, mutex2, thread_data, wi,
                   local_value, mi, mpc, midx, si, csum, sum, stdout, exitCode>>

\* the unlock moved up to follow the read-back, before the delay and the printf
w_local_UnlockEarly(w) ==
    /\ pc[w] = "local"
    /\ local_value' = [local_value EXCEPT ![w] = counter]
    /\ MutexUnlock(mutex1')
    /\ pc' = [pc EXCEPT ![w] = "usleep"]
    /\ UNCHANGED <<sumVars, counter, array, mutex2, thread_data, wi, reg,
                   mi, mpc, midx, si, csum, sum, stdout, exitCode>>

\* int local_value = counter
w_local(w) ==
    /\ pc[w] = "local"
    /\ local_value' = [local_value EXCEPT ![w] = counter]
    /\ pc' = [pc EXCEPT ![w] = "usleep"]
    /\ UNCHANGED <<sumVars, counter, array, mutex1, mutex2, thread_data, wi,
                   reg,
                   mi, mpc, midx, si, csum, sum, stdout, exitCode>>

\* usleep(100), inside the critical section
w_usleep(w) ==
    /\ pc[w] = "usleep"
    /\ pc' = [pc EXCEPT ![w] = "print"]
    /\ UNCHANGED <<sumVars, counter, array, mutex1, mutex2, thread_data, wi,
                   reg,
                   local_value, mi, mpc, midx, si, csum, sum, stdout, exitCode>>

\* printf("Thread %d: counter = %d, local = %d\n", ...); local_value is dead
\* after this, its last use
w_print(w) ==
    /\ pc[w] = "print"
    /\ stdout' = [stdout EXCEPT !.worker =
                     Append(@, [counter |-> counter, local |-> local_value[w]])]
    /\ local_value' = [local_value EXCEPT ![w] = Uninit]
    /\ pc' = [pc EXCEPT ![w] = "unlock"]
    /\ UNCHANGED <<sumVars, counter, array, mutex1, mutex2, thread_data, wi,
                   reg,
                   mi, mpc, midx, si, csum, sum, exitCode>>

\* pthread_mutex_unlock(&mutex1); then the thread-local rest of the iteration:
\* usleep(1000); i++; the loop test; return NULL when the test fails
w_unlock(w) ==
    /\ pc[w] = "unlock"
    /\ MutexUnlock(mutex1')
    /\ wi' = [wi EXCEPT ![w] = @ + 1]
    /\ pc' = [pc EXCEPT ![w] =
                 IF WorkerLoopTest(w, wi[w] + 1) THEN "lock" ELSE "done"]
    /\ UNCHANGED <<sumVars, counter, array, mutex2, thread_data, reg,
                   local_value, mi, mpc, midx, si, csum, sum, stdout, exitCode>>

worker_thread(w) ==
    \/ w_entry(w)
    \/ w_lock(w)
    \/ w_load(w)
    \/ w_store(w)
    \/ w_local(w)
    \/ w_usleep(w)
    \/ w_print(w)
    \/ w_unlock(w)

(* ---------------- mutex_user_thread ---------------- *)
\* the loop condition written i <= 5
MutexUserLoopTest_OffByOne(i) == i <= DoubleCount

\* the loop condition i < 5
MutexUserLoopTest(i) == i < DoubleCount

\* the first acquisition naming mutex2 in place of mutex1
m_lock1_WrongMutex ==
    /\ pc[MutexUser] = "lock1"
    /\ MutexLock(mutex2, MutexUser, mutex2')
    /\ pc' = [pc EXCEPT ![MutexUser] = "print1"]
    /\ UNCHANGED <<sumVars, counter, array, mutex1, thread_data, wi, reg,
                   local_value, mi, mpc, midx, si, csum, sum, stdout, exitCode>>

\* pthread_mutex_lock(&mutex1)
m_lock1 ==
    /\ pc[MutexUser] = "lock1"
    /\ MutexLock(mutex1, MutexUser, mutex1')
    /\ pc' = [pc EXCEPT ![MutexUser] = "print1"]
    /\ UNCHANGED <<sumVars, counter, array, mutex2, thread_data, wi, reg,
                   local_value, mi, mpc, midx, si, csum, sum, stdout, exitCode>>

\* printf("Thread %d: acquired mutex1\n", data->id)
m_print1 ==
    /\ pc[MutexUser] = "print1"
    /\ stdout' = [stdout EXCEPT !.acquired = Append(@, 1)]
    /\ pc' = [pc EXCEPT ![MutexUser] = "usleep"]
    /\ UNCHANGED <<sumVars, counter, array, mutex1, mutex2, thread_data, wi,
                   reg,
                   local_value, mi, mpc, midx, si, csum, sum, exitCode>>

\* usleep(10000)
m_usleep ==
    /\ pc[MutexUser] = "usleep"
    /\ pc' = [pc EXCEPT ![MutexUser] = "lock2"]
    /\ UNCHANGED <<sumVars, counter, array, mutex1, mutex2, thread_data, wi,
                   reg,
                   local_value, mi, mpc, midx, si, csum, sum, stdout, exitCode>>

\* pthread_mutex_lock(&mutex2)
m_lock2 ==
    /\ pc[MutexUser] = "lock2"
    /\ MutexLock(mutex2, MutexUser, mutex2')
    /\ pc' = [pc EXCEPT ![MutexUser] = "print2"]
    /\ UNCHANGED <<sumVars, counter, array, mutex1, thread_data, wi, reg,
                   local_value, mi, mpc, midx, si, csum, sum, stdout, exitCode>>

\* printf("Thread %d: acquired mutex2\n", data->id); then int i = 0 and the
\* first loop test
m_print2 ==
    /\ pc[MutexUser] = "print2"
    /\ stdout' = [stdout EXCEPT !.acquired = Append(@, 2)]
    /\ IF MutexUserLoopTest(0)
       THEN /\ mi' = 0
            /\ pc' = [pc EXCEPT ![MutexUser] = "for"]
       ELSE /\ mi' = Uninit
            /\ pc' = [pc EXCEPT ![MutexUser] = "unlock2"]
    /\ UNCHANGED <<sumVars, counter, array, mutex1, mutex2, thread_data, wi,
                   reg,
                   local_value, mpc, midx, si, csum, sum, exitCode>>

\* array[i] *= 2
DoubleAt(arr, i) == [arr EXCEPT ![i] = @ * 2]

\* one iteration of the loop: array[i] *= 2; i++; the loop test, which leaves
\* the loop when it fails
m_double ==
    /\ pc[MutexUser] = "for"
    /\ array' = DoubleAt(array, mi)
    /\ IF MutexUserLoopTest(mi + 1)
       THEN /\ mi' = mi + 1
            /\ pc' = pc
       ELSE /\ mi' = Uninit
            /\ pc' = [pc EXCEPT ![MutexUser] = "unlock2"]
    /\ UNCHANGED <<sumVars, counter, mutex1, mutex2, thread_data, wi, reg,
                   local_value, mpc, midx, si, csum, sum, stdout, exitCode>>

\* the two releases exchanged: mutex1 released where mutex2 should be
m_unlock2_ReleasesA ==
    /\ pc[MutexUser] = "unlock2"
    /\ MutexUnlock(mutex1')
    /\ pc' = [pc EXCEPT ![MutexUser] = "unlock1"]
    /\ UNCHANGED <<sumVars, counter, array, mutex2, thread_data, wi, reg,
                   local_value, mi, mpc, midx, si, csum, sum, stdout, exitCode>>

\* pthread_mutex_unlock(&mutex2)
m_unlock2 ==
    /\ pc[MutexUser] = "unlock2"
    /\ MutexUnlock(mutex2')
    /\ pc' = [pc EXCEPT ![MutexUser] = "unlock1"]
    /\ UNCHANGED <<sumVars, counter, array, mutex1, thread_data, wi, reg,
                   local_value, mi, mpc, midx, si, csum, sum, stdout, exitCode>>

\* the thread returning without pthread_mutex_unlock(&mutex1)
m_unlock1_NoRelease ==
    /\ pc[MutexUser] = "unlock1"
    /\ pc' = [pc EXCEPT ![MutexUser] = "done"]
    /\ UNCHANGED <<sumVars, counter, array, mutex1, mutex2, thread_data, wi, reg,
                   local_value, mi, mpc, midx, si, csum, sum, stdout, exitCode>>

\* pthread_mutex_unlock(&mutex1); return NULL
m_unlock1 ==
    /\ pc[MutexUser] = "unlock1"
    /\ MutexUnlock(mutex1')
    /\ pc' = [pc EXCEPT ![MutexUser] = "done"]
    /\ UNCHANGED <<sumVars, counter, array, mutex2, thread_data, wi, reg,
                   local_value, mi, mpc, midx, si, csum, sum, stdout, exitCode>>

mutex_user_thread ==
    \/ m_lock1
    \/ m_print1
    \/ m_usleep
    \/ m_lock2
    \/ m_print2
    \/ m_double
    \/ m_unlock2
    \/ m_unlock1

(* ---------------- calculate_sum ---------------- *)
\* the loop body written sum = arr[i]
SumStep_Assign(arr, i, s) == arr[i]

\* the loop body: sum += arr[i]
SumStep(arr, i, s) == s + arr[i]

\* the loop for (i = 0; i < size; i++) sum += arr[i], from index i with
\* partial sum s
RECURSIVE SumLoop(_, _, _, _)
SumLoop(arr, size, i, s) ==
    IF i < size THEN SumLoop(arr, size, i + 1, SumStep(arr, i, s)) ELSE s

\* int sum = 0; the loop; return sum
calculate_sum(arr, size) == SumLoop(arr, size, 0, 0)

(* ---------------- main ---------------- *)
\* printf("Starting sample program...\n"); then int i = 0 of the create loop
main_start ==
    /\ mpc = "start"
    /\ midx' = 0
    /\ mpc' = "set_id"
    /\ UNCHANGED <<sumVars, counter, array, mutex1, mutex2, thread_data, pc,
                   wi, reg,
                   local_value, mi, si, csum, sum, stdout, exitCode>>

\* every id written to the first descriptor: thread_data[0].id = i + 1
main_set_id_SharedSlot ==
    /\ mpc = "set_id"
    /\ thread_data' = [thread_data EXCEPT ![0].id = midx + 1]
    /\ mpc' = "set_iter"
    /\ UNCHANGED <<sumVars, counter, array, mutex1, mutex2, pc, wi, reg,
                   local_value, mi, midx, si, csum, sum, stdout, exitCode>>

\* thread_data[i].id = i + 1
main_set_id ==
    /\ mpc = "set_id"
    /\ thread_data' = [thread_data EXCEPT ![midx].id = midx + 1]
    /\ mpc' = "set_iter"
    /\ UNCHANGED <<sumVars, counter, array, mutex1, mutex2, pc, wi, reg,
                   local_value, mi, midx, si, csum, sum, stdout, exitCode>>

\* thread_data[i].iterations = 5
main_set_iter ==
    /\ mpc = "set_iter"
    /\ thread_data' = [thread_data EXCEPT ![midx].iterations = iterations]
    /\ mpc' = "create"
    /\ UNCHANGED <<sumVars, counter, array, mutex1, mutex2, pc, wi, reg,
                   local_value, mi, midx, si, csum, sum, stdout, exitCode>>

\* pthread_create(&threads[i], NULL, worker_thread, &thread_data[i]); i++;
\* the loop test i < num_threads - 1
main_create ==
    /\ mpc = "create"
    /\ pc' = [pc EXCEPT ![midx] = "entry"]
    /\ midx' = midx + 1
    /\ mpc' = IF midx + 1 < num_threads - 1 THEN "set_id" ELSE "set_id_mu"
    /\ UNCHANGED <<sumVars, counter, array, mutex1, mutex2, thread_data, wi,
                   reg,
                   local_value, mi, si, csum, sum, stdout, exitCode>>

\* thread_data[num_threads - 1].id = num_threads
main_set_id_mu ==
    /\ mpc = "set_id_mu"
    /\ thread_data' = [thread_data EXCEPT ![num_threads - 1].id = num_threads]
    /\ mpc' = "set_iter_mu"
    /\ UNCHANGED <<sumVars, counter, array, mutex1, mutex2, pc, wi, reg,
                   local_value, mi, midx, si, csum, sum, stdout, exitCode>>

\* thread_data[num_threads - 1].iterations = 1
main_set_iter_mu ==
    /\ mpc = "set_iter_mu"
    /\ thread_data' = [thread_data EXCEPT
                          ![num_threads - 1].iterations = MutexUserIterations]
    /\ mpc' = "create_mu"
    /\ UNCHANGED <<sumVars, counter, array, mutex1, mutex2, pc, wi, reg,
                   local_value, mi, midx, si, csum, sum, stdout, exitCode>>

\* pthread_create(&threads[num_threads - 1], NULL, mutex_user_thread, ...);
\* then the entry of calculate_sum(array, 10): sum = 0, i = 0
main_create_mu ==
    /\ mpc = "create_mu"
    /\ pc' = [pc EXCEPT ![num_threads - 1] = "lock1"]
    /\ midx' = Uninit
    /\ si' = 0
    /\ csum' = 0
    /\ mpc' = "sum_initial"
    /\ UNCHANGED <<sumVars, counter, array, mutex1, mutex2, thread_data, wi,
                   reg,
                   local_value, mi, sum, stdout, exitCode>>

\* array[i] is written by some thread after launch: only mutex_user_thread
\* writes the array, at the indices of its loop
WrittenAfterLaunch(i) == MutexUserLoopTest(i)

\* calculate_sum's loop over the shared array.  A read of an element that
\* another thread writes is a step of its own; the reads of the elements no
\* thread ever writes commute with every other thread's steps and are taken
\* together.
main_sum_step ==
    /\ mpc \in {"sum_initial", "sum_final"}
    /\ si < ArraySize
    /\ IF WrittenAfterLaunch(si)
       THEN /\ csum' = SumStep(array, si, csum)
            /\ si' = si + 1
       ELSE /\ csum' = SumLoop(array, ArraySize, si, csum)
            /\ si' = ArraySize
    /\ UNCHANGED <<sumVars, counter, array, mutex1, mutex2, thread_data, pc,
                   wi, reg,
                   local_value, mi, mpc, midx, sum, stdout, exitCode>>

\* the first call returns: int sum = calculate_sum(array, 10);
\* printf("Main thread: initial sum = %d\n", sum); then int i = 0 of the
\* join loop
main_initial_sum ==
    /\ mpc = "sum_initial"
    /\ ~(si < ArraySize)
    /\ sum' = csum
    /\ stdout' = [stdout EXCEPT !.initial = csum]
    /\ si' = Uninit
    /\ csum' = Uninit
    /\ midx' = 0
    /\ mpc' = "join"
    /\ UNCHANGED <<sumVars, counter, array, mutex1, mutex2, thread_data, pc,
                   wi, reg,
                   local_value, mi, exitCode>>

\* the second call returns: sum = calculate_sum(array, 10)
main_final_sum ==
    /\ mpc = "sum_final"
    /\ ~(si < ArraySize)
    /\ sum' = csum
    /\ si' = Uninit
    /\ csum' = Uninit
    /\ mpc' = "print_counter"
    /\ UNCHANGED <<sumVars, counter, array, mutex1, mutex2, thread_data, pc,
                   wi, reg,
                   local_value, mi, midx, stdout, exitCode>>

\* a join that returns without waiting
Joinable_NoWait(t) == TRUE

\* pthread_join returns only once the thread has terminated
Joinable(t) == pc[t] = "done"

\* the join loop written with the bound of the create loop, i < num_threads - 1
main_join_SkipsLast ==
    /\ mpc = "join"
    /\ Joinable(midx)
    /\ IF midx + 1 < num_threads - 1
       THEN /\ midx' = midx + 1
            /\ UNCHANGED <<mpc, si, csum>>
       ELSE /\ midx' = Uninit
            /\ si' = 0
            /\ csum' = 0
            /\ mpc' = "sum_final"
    /\ UNCHANGED <<sumVars, counter, array, mutex1, mutex2, thread_data, pc, wi,
                   reg, local_value, mi, sum, stdout, exitCode>>

\* pthread_join(threads[i], NULL); i++; the loop test i < num_threads; after
\* the last join the entry of calculate_sum(array, 10)
main_join ==
    /\ mpc = "join"
    /\ Joinable(midx)
    /\ IF midx + 1 < num_threads
       THEN /\ midx' = midx + 1
            /\ UNCHANGED <<sumVars, mpc, si, csum>>
       ELSE /\ midx' = Uninit
            /\ si' = 0
            /\ csum' = 0
            /\ mpc' = "sum_final"
    /\ UNCHANGED <<sumVars, counter, array, mutex1, mutex2, thread_data, pc,
                   wi, reg,
                   local_value, mi, sum, stdout, exitCode>>

\* printf("Final counter: %d\n", counter)
main_print_counter ==
    /\ mpc = "print_counter"
    /\ stdout' = [stdout EXCEPT !.counter = counter]
    /\ mpc' = "print_final"
    /\ UNCHANGED <<sumVars, counter, array, mutex1, mutex2, thread_data, pc,
                   wi, reg,
                   local_value, mi, midx, si, csum, sum, exitCode>>

\* printf("Final sum: %d\n", sum)
main_print_final ==
    /\ mpc = "print_final"
    /\ stdout' = [stdout EXCEPT !.final = sum]
    /\ mpc' = "print_completed"
    /\ UNCHANGED <<sumVars, counter, array, mutex1, mutex2, thread_data, pc,
                   wi, reg,
                   local_value, mi, midx, si, csum, sum, exitCode>>

\* printf("Program completed successfully\n")
main_print_completed ==
    /\ mpc = "print_completed"
    /\ stdout' = [stdout EXCEPT !.completed = TRUE]
    /\ mpc' = "return"
    /\ UNCHANGED <<sumVars, counter, array, mutex1, mutex2, thread_data, pc,
                   wi, reg,
                   local_value, mi, midx, si, csum, sum, exitCode>>

\* return 0
main_return ==
    /\ mpc = "return"
    /\ exitCode' = EXIT_SUCCESS
    /\ mpc' = "done"
    /\ UNCHANGED <<sumVars, counter, array, mutex1, mutex2, thread_data, pc,
                   wi, reg,
                   local_value, mi, midx, si, csum, sum, stdout>>

main ==
    \/ main_start
    \/ main_set_id
    \/ main_set_iter
    \/ main_create
    \/ main_set_id_mu
    \/ main_set_iter_mu
    \/ main_create_mu
    \/ main_sum_step
    \/ main_initial_sum
    \/ main_join
    \/ main_final_sum
    \/ main_print_counter
    \/ main_print_final
    \/ main_print_completed
    \/ main_return

(* ---------------- the program ---------------- *)
Next ==
    \/ main
    \/ \E w \in Workers : worker_thread(w)
    \/ mutex_user_thread

Spec == Init /\ [][Next]_vars

(* ---------------- calculate_sum on arbitrary arrays ---------------- *)
\* the values and the arrays (int arr[size], indexed 0 .. size-1) the
\* reduction is applied to; the sums stay far inside the range of int
SumVals == (0 - MaxVal) .. MaxVal
SumArrays == UNION {[0 .. (n - 1) -> SumVals] : n \in 0 .. MaxLen}
SizeOf(arr) == Cardinality(DOMAIN arr)

SumInit ==
    /\ ProgInit
    /\ sArr \in SumArrays
    /\ sArr0 = sArr
    /\ sSeen = <<>>
    /\ sFirst = 0
    /\ sLast = 0
    /\ sCalls = 0

\* a call calculate_sum(arr, size): the function only reads arr
sum_call ==
    /\ sCalls < MaxCalls
    /\ sLast' = calculate_sum(sArr, SizeOf(sArr))
    /\ sFirst' = IF sCalls = 0 THEN sLast' ELSE sFirst
    /\ sSeen' = sArr
    /\ sCalls' = sCalls + 1
    /\ UNCHANGED <<progVars, sArr, sArr0>>

\* the caller exchanges two elements between calls
sum_permute ==
    /\ sCalls > 0
    /\ \E j, k \in DOMAIN sArr :
          /\ j < k
          /\ sArr[j] # sArr[k]
          /\ sArr' = [sArr EXCEPT ![j] = sArr[k], ![k] = sArr[j]]
    /\ UNCHANGED <<progVars, sArr0, sSeen, sFirst, sLast, sCalls>>

SumNext ==
    \/ sum_call
    \/ sum_permute

SumSpec == SumInit /\ [][SumNext]_vars

\* Every launched thread and main is scheduled by the OS: a step a thread can
\* take continuously is eventually taken.
Fairness ==
    /\ WF_vars(main)
    /\ \A w \in Workers : WF_vars(worker_thread(w))
    /\ WF_vars(mutex_user_thread)

FairSpec == Spec /\ Fairness


(* ---------------- vocabulary of the properties ---------------- *)
\* thread t is between its pthread_mutex_lock(&mutex1) and its
\* pthread_mutex_unlock(&mutex1)
InCriticalA(t) ==
    IF t = MutexUser
    THEN pc[t] \in {"print1", "usleep", "lock2", "print2", "for",
                    "unlock2", "unlock1"}
    ELSE pc[t] \in {"load", "store", "local", "usleep", "print", "unlock"}

\* thread t is blocked in pthread_mutex_lock on a mutex that thread u owns
WaitsFor(t, u) ==
    \/ /\ t \in Workers
       /\ pc[t] = "lock"
       /\ mutex1 = u
    \/ /\ t = MutexUser
       /\ pc[t] = "lock1"
       /\ mutex1 = u
    \/ /\ t = MutexUser
       /\ pc[t] = "lock2"
       /\ mutex2 = u

\* u is reached from t along at most n waits
RECURSIVE WaitsForChain(_, _, _)
WaitsForChain(t, u, n) ==
    /\ n > 0
    /\ \/ WaitsFor(t, u)
       \/ \E v \in Threads : WaitsFor(t, v) /\ WaitsForChain(v, u, n - 1)

\* main is in one of its calls of calculate_sum
MainReducing == mpc \in {"sum_initial", "sum_final"}

\* main has printed the initial sum / the final counter / the final sum
InitialSumPrinted ==
    mpc \in {"join", "sum_final", "print_counter", "print_final",
             "print_completed", "return", "done"}
FinalCounterPrinted == mpc \in {"print_final", "print_completed", "return", "done"}
FinalSumPrinted == mpc \in {"print_completed", "return", "done"}

\* the array after the array-worker: (2,4,6,8,10,6,7,8,9,10)
DoubledArray ==
    [j \in 0 .. (ArraySize - 1) |-> <<2, 4, 6, 8, 10, 6, 7, 8, 9, 10>>[j + 1]]

\* main has returned and every launched thread has terminated
Terminated ==
    /\ mpc = "done"
    /\ exitCode = EXIT_SUCCESS
    /\ \A t \in Threads : pc[t] = "done"

\* the arithmetic sum of an array, by value: each value times how often it
\* occurs
RECURSIVE WeightedSum(_, _)
WeightedSum(arr, vals) ==
    IF vals = {} THEN 0
    ELSE LET v == CHOOSE x \in vals : TRUE
         IN  v * Cardinality({i \in DOMAIN arr : arr[i] = v})
               + WeightedSum(arr, vals \ {v})
ArithmeticSum(arr) == WeightedSum(arr, {arr[i] : i \in DOMAIN arr})

(* ---------------- properties ---------------- *)
\* C1: no lost updates.  Once all counter-workers have finished, counter is
\* exactly (number of counter-workers) * iterations = 15, and that is the
\* value main prints as the final counter.
C1_NoLostUpdates ==
    /\ (\A w \in Workers : pc[w] = "done")
          => counter = (num_threads - 1) * iterations
    /\ FinalCounterPrinted => stdout.counter = (num_threads - 1) * iterations
C1_Witness ==
    /\ mpc = "done"
    /\ \A w \in Workers : pc[w] = "done"
    /\ stdout.counter = 15

\* C2: mutual exclusion of mutex1.  At most one thread is between its
\* acquisition and its release of mutex1.
C2_MutualExclusionA == Cardinality({t \in Threads : InCriticalA(t)}) <= 1
C2_Witness ==
    \E w, v \in Workers :
        /\ w # v
        /\ InCriticalA(w)
        /\ pc[v] = "lock"
        /\ pc[MutexUser] = "lock1"

\* C3: termination.  Under fair scheduling of every thread, every worker
\* finishes, the join loop returns and main returns the success code.
C3_Termination == <>Terminated
C3_Witness == Terminated /\ stdout.completed

\* C4: the initial sum main prints is 55 in every execution.
C4_InitialSumIs55 == InitialSumPrinted => stdout.initial = 55

\* C5: every read of the array by main's reduction happens before any worker
\* is launched or after all workers have terminated.
C5_ReductionOutsideConcurrentRegion ==
    MainReducing =>
        \/ \A t \in Threads : pc[t] = "notstarted"
        \/ \A t \in Threads : pc[t] = "done"

\* C6: the array-worker doubles indices 0..4 exactly once each, in index
\* order, and nothing writes indices 5..9: before its loop the array is
\* 1..10, inside the loop exactly the indices below i are doubled, and once
\* it has finished the array is (2,4,6,8,10,6,7,8,9,10).
C6_ArrayDoubledOnce ==
    /\ pc[MutexUser] \in {"notstarted", "lock1", "print1", "usleep", "lock2",
                          "print2"} => array = InitArray
    /\ pc[MutexUser] = "for" =>
          \A j \in 0 .. (ArraySize - 1) :
              array[j] = IF j < mi THEN 2 * InitArray[j] ELSE InitArray[j]
    /\ pc[MutexUser] \in {"unlock2", "unlock1", "done"} => array = DoubledArray
    /\ \A j \in DoubleCount .. (ArraySize - 1) : array[j] = InitArray[j]
C6_Witness == pc[MutexUser] = "done" /\ array = DoubledArray /\ mpc = "join"

\* C7: the second reduction runs only after all four threads have terminated,
\* and the final sum main prints is 70.
C7_FinalSumIs70 ==
    /\ (mpc = "sum_final" \/ FinalCounterPrinted \/ mpc = "print_counter")
          => \A t \in Threads : pc[t] = "done"
    /\ FinalSumPrinted => stdout.final = 70
C7_Witness == mpc = "done" /\ stdout.final = 70 /\ stdout.initial # 55

\* C8: mutex2 is never contended and there is no deadlock.  mutex2 is free
\* whenever the array-worker is about to acquire it, no thread but the
\* array-worker ever owns it (the only wait on mutex2 is the array-worker's),
\* and the waits-for relation has no cycle: no thread reaches itself
\* through a chain of threads each blocked on a mutex the next one owns.
C8_LockBUncontended ==
    /\ pc[MutexUser] = "lock2" => mutex2 = Free
    /\ mutex2 \in {Free, MutexUser}
    /\ \A t \in Threads : ~WaitsForChain(t, t, num_threads)
C8_Witness ==
    /\ pc[MutexUser] = "lock2"
    /\ \E w \in Workers : WaitsFor(w, MutexUser)

\* C9: calculate_sum returns the arithmetic sum of its input and the result
\* does not depend on the order of the elements: the first call (on the array
\* as drawn) and every later call (on the array as permuted since) return the
\* same value, the arithmetic sum of the array as drawn; and the calls leave
\* the array's elements as they were (the same values, as often).
C9_SumOrderIndependent ==
    /\ sCalls > 0 =>
          /\ sFirst = ArithmeticSum(sArr0)
          /\ sLast = sFirst
    /\ DOMAIN sArr = DOMAIN sArr0
    /\ \A v \in SumVals :
          Cardinality({i \in DOMAIN sArr : sArr[i] = v})
             = Cardinality({i \in DOMAIN sArr0 : sArr0[i] = v})
C9_Witness ==
    /\ sCalls >= 2
    /\ sSeen # sArr0
    /\ sArr0[0] # 0

\* C10: while the array-worker holds mutex1 no counter-worker is inside its
\* critical section, and no step taken while it holds mutex1 changes counter.
C10_ArrayExcludesCounter ==
    /\ [](InCriticalA(MutexUser) => \A w \in Workers : ~InCriticalA(w))
    /\ [][InCriticalA(MutexUser) => counter' = counter]_vars
C10_Witness ==
    /\ pc[MutexUser] = "for"
    /\ mi = 2
    /\ counter > 0
    /\ \E w \in Workers : pc[w] = "lock"

\* C11: lock discipline of the array-worker.  Whoever owns mutex2 owns mutex1
\* (mutex1 is acquired first and released last: the acquisition lines are
\* printed in the order 1, 2, and mutex1 is never given up while mutex2 is
\* held), and every step that writes the array is taken with both mutexes
\* owned by the array-worker.
C11_LockDiscipline ==
    /\ [](mutex2 # Free => mutex1 = mutex2)
    /\ [](stdout.acquired \in {<<>>, <<1>>, <<1, 2>>})
    /\ [][array' # array =>
             /\ pc[MutexUser] = "for"
             /\ mutex1 = MutexUser /\ mutex2 = MutexUser
             /\ mutex1' = MutexUser /\ mutex2' = MutexUser]_vars
    /\ [][mutex1 = MutexUser /\ mutex1' # MutexUser => mutex2 = Free]_vars
C11_Witness ==
    /\ pc[MutexUser] = "unlock1"
    /\ mutex1 = MutexUser
    /\ mutex2 = Free
    /\ array = DoubledArray
    /\ stdout.acquired = <<1, 2>>

\* C12 as stated: at its delay step the array-worker holds neither mutex.
C12_DelayHoldsNoLock ==
    pc[MutexUser] = "usleep" => mutex1 # MutexUser /\ mutex2 # MutexUser

\* C12 as amended: at its delay step the array-worker holds mutex1 and not
\* mutex2, and the array is still unmodified (the delay lies between the two
\* acquisitions, not inside the array mutation).
C12_DelayHoldsOnlyA ==
    pc[MutexUser] = "usleep" =>
        /\ mutex1 = MutexUser
        /\ mutex2 = Free
        /\ array = InitArray
C12_Witness ==
    /\ pc[MutexUser] = "usleep"
    /\ \E w \in Workers : pc[w] = "lock" /\ WaitsFor(w, MutexUser)

\* the number of executions of counter++ worker w has completed
Completed(w) ==
    IF pc[w] \in {"notstarted", "entry"} THEN 0
    ELSE wi[w] + (IF pc[w] \in {"local", "usleep", "print", "unlock"}
                  THEN 1 ELSE 0)

RECURSIVE TotalCompleted(_)
TotalCompleted(ws) ==
    IF ws = {} THEN 0
    ELSE LET w == CHOOSE x \in ws : TRUE
         IN  Completed(w) + TotalCompleted(ws \ {w})

\* C13: counter is monotone and changes only under mutex1.  Every step that
\* changes counter adds exactly 1 and is the store of a counter-worker that
\* owns mutex1; counter stays within 0 .. 15 and equals the number of
\* increments completed so far, each finished worker having contributed
\* exactly its 5.
C13_CounterMonotone ==
    /\ [](/\ 0 <= counter
          /\ counter <= (num_threads - 1) * iterations
          /\ counter = TotalCompleted(Workers)
          /\ \A w \in Workers : pc[w] = "done" => Completed(w) = iterations)
    /\ [][counter' # counter =>
             /\ counter' = counter + 1
             /\ \E w \in Workers :
                   /\ pc[w] = "store" /\ pc'[w] = "local"
                   /\ mutex1 = w /\ mutex1' = w]_vars
C13_Witness ==
    \E w, v \in Workers :
        /\ pc[w] = "local"
        /\ pc[v] = "done"
        /\ counter = 8

\* main has begun its final report: the second calculate_sum and the prints
\* that follow it
FinalReportStarted ==
    mpc \in {"sum_final", "print_counter", "print_final", "print_completed",
             "return", "done"}

\* C14: join ordering.  main reads the array and counter for its final report
\* only when all four threads have terminated; from then on no thread takes a
\* step, nothing changes counter, the array or the threads' output, and the
\* counter main has printed is the counter.
C14_JoinOrdering ==
    /\ [](FinalReportStarted => \A t \in Threads : pc[t] = "done")
    /\ [](FinalCounterPrinted => stdout.counter = counter)
    /\ [][FinalReportStarted =>
             /\ pc' = pc
             /\ counter' = counter
             /\ array' = array
             /\ stdout'.worker = stdout.worker
             /\ stdout'.acquired = stdout.acquired]_vars
C14_Witness ==
    /\ mpc = "sum_final"
    /\ si = 3
    /\ \A t \in Threads : pc[t] = "done"

\* thread t has been launched by pthread_create
Launched(t) == pc[t] # "notstarted"

\* the descriptor main writes for thread t before launching it
DescriptorOf(t) ==
    [id |-> t + 1,
     iterations |-> IF t = MutexUser THEN MutexUserIterations ELSE iterations]

\* C15: task descriptors.  Three threads run worker_thread and one runs
\* mutex_user_thread, each launched once; a launched thread's descriptor is
\* complete (id = its index + 1, so the ids are the distinct 1..4, and its
\* iteration count), all four are launched once main passes the last
\* pthread_create, and no step writes the descriptor of a launched thread.
C15_Descriptors ==
    /\ [](\A t \in Threads : Launched(t) => thread_data[t] = DescriptorOf(t))
    /\ [](\A t, u \in Threads :
             Launched(t) /\ Launched(u) /\ t # u
                => /\ thread_data[t].id # thread_data[u].id
                   /\ thread_data[t].id \in 1 .. num_threads)
    /\ [](/\ \A w \in Workers : pc[w] \notin {"lock1", "lock2", "for"}
          /\ pc[MutexUser] \notin {"entry", "lock", "load", "store"}
          /\ Cardinality(Workers) = 3)
    /\ []((InitialSumPrinted \/ MainReducing) => \A t \in Threads : Launched(t))
    /\ [][\A t \in Threads :
             Launched(t) => Launched(t)' /\ thread_data'[t] = thread_data[t]]_vars
    /\ [][\A t \in Threads :
             pc'[t] \in {"entry", "lock1"} => pc[t] \in {"notstarted", pc'[t]}]_vars
C15_Witness ==
    /\ mpc = "set_iter"
    /\ midx = 2
    /\ thread_data[2] = [id |-> 3, iterations |-> Uninit]
    /\ pc[0] = "usleep"
    /\ pc[1] = "lock"

\* C16: in every status line the counter printed equals the worker's local
\* copy: from a worker's read-back of counter to its printf (the delay
\* inside the critical section included) local_value equals counter, and no
\* step changes counter while a worker is between its increment and its
\* printf.
C16_PrintedEqualsLocal ==
    /\ [](\A k \in 1 .. Len(stdout.worker) :
             stdout.worker[k].counter = stdout.worker[k].local)
    /\ [](\A w \in Workers :
             pc[w] \in {"usleep", "print"} => local_value[w] = counter)
    /\ [][\A w \in Workers :
             pc[w] \in {"local", "usleep", "print"} => counter' = counter]_vars
C16_Witness ==
    \E w, v \in Workers :
        /\ pc[w] = "unlock"
        /\ pc[v] = "lock"
        /\ pc[MutexUser] = "lock1"
        /\ Len(stdout.worker) = 9
        /\ stdout.worker[9] = [counter |-> 9, local |-> 9]

\* C17: the counter values of the status lines, in emission order, are
\* 1, 2, 3, ...: the k-th line prints k, there are never more than 15 lines,
\* and once the three workers have finished there are exactly 15.
C17_EmittedSequence ==
    /\ \A k \in 1 .. Len(stdout.worker) : stdout.worker[k].counter = k
    /\ Len(stdout.worker) <= (num_threads - 1) * iterations
    /\ (\A w \in Workers : pc[w] = "done")
          => Len(stdout.worker) = (num_threads - 1) * iterations
C17_Witness ==
    /\ Len(stdout.worker) = 15
    /\ stdout.worker[15].counter = 15
    /\ pc[MutexUser] = "lock1"

\* the sums the doubled elements can add to a reduction: for each set of
\* indices in js, the sum of their initial values
RECURSIVE ExtraSums(_)
ExtraSums(js) ==
    IF js = {} THEN {0}
    ELSE LET j == CHOOSE x \in js : TRUE
             rest == ExtraSums(js \ {j})
         IN  rest \cup {x + InitArray[j] : x \in rest}

\* the partial sums of the first n elements in which each element counts with
\* its initial value or, for an index the array-worker doubles, with twice it
PartialSums(n) ==
    LET base == SumLoop(InitArray, n, 0, 0)
    IN  {base + x : x \in ExtraSums({j \in 0 .. (n - 1) : j < DoubleCount})}

\* C18: every element the first reduction reads is its initial value or
\* exactly twice it, elements 5..9 always their initial value; so the initial
\* sum main prints lies in 55 .. 70.
C18_InitialSumRange ==
    /\ \A j \in 0 .. (ArraySize - 1) :
          /\ array[j] \in {InitArray[j], 2 * InitArray[j]}
          /\ j >= DoubleCount => array[j] = InitArray[j]
    /\ mpc = "sum_initial" => csum \in PartialSums(si)
    /\ InitialSumPrinted =>
          /\ stdout.initial \in PartialSums(ArraySize)
          /\ 55 <= stdout.initial
          /\ stdout.initial <= 70
C18_Witness == InitialSumPrinted /\ stdout.initial = 61

====
